---- MODULE Spec2Model ----
(***************************************************************************)
(* pixelfield: an interactive editor for a grid of three-state pixels      *)
(* (Option<bool>), src/main.rs.  The model follows main(): the start-up    *)
(* (create / open), the render-then-poll main loop, one action per key     *)
(* handler, and the digit handler's `for _ in 0..digit` loop one           *)
(* iteration per step.                                                     *)
(*                                                                         *)
(* Rust's Option<T> is a sequence of length 0 (None) or 1 (Some(v)).       *)
(* u32 arithmetic keeps a width: with overflow checks (the debug profile)  *)
(* an out-of-range result panics, without them (the release profile) it    *)
(* wraps.  The profile is fixed when the program starts                    *)
(* (overflow_checks).  TLC's own integers are 32-bit signed, so the        *)
(* program's u32 is modelled as a 16-bit unsigned word and its i32 as a    *)
(* 16-bit signed one: every overflow of the program has its counterpart    *)
(* at 2^16, and every number the program is given here (the 800 x 600      *)
(* window included) fits the narrower word.                                *)
(*                                                                         *)
(* The image file is read once, at start-up, and written by `create` and   *)
(* by Keycode::S; the program never reads back what it wrote.  io holds    *)
(* the file operation of the latest step with the document read or         *)
(* written, and "none" after a step that touches no file.  to-png reads    *)
(* the file and hands the png encoder a width, a height and a byte buffer  *)
(* (png); the encoder is not modelled.                                     *)
(*                                                                         *)
(* run_start, trail and last_run are history variables: no action reads    *)
(* them to decide what the program does.  trail and last_run are kept      *)
(* under SpecHistory only (history = TRUE).                                *)
(***************************************************************************)
EXTENDS Integers, Sequences, FiniteSets, TLC

(* ------------------------------ bounds -------------------------------- *)
\* Largest width and height given to `create` or found in a file, and the
\* largest number of pixels a file holds.
MaxWidth == 2
MaxHeight == 2
MaxCells == 4

(* ------------------------- integer widths ----------------------------- *)
\* u32 values are 0 .. W32 - 1, i32 values are -I32Max - 1 .. I32Max.
W32 == 2^16
I32Max == 2^15 - 1
U32Ok(n) == n >= 0 /\ n < W32
I32Ok(n) == n >= -I32Max - 1 /\ n <= I32Max
Wrap32(n) == n % W32
WrapI32(n) == ((n + I32Max + 1) % W32) - I32Max - 1
\* A side length whose square does not fit the word.
HalfWord == 2^8
\* Cursor coordinates stay below this in the model (a cursor only passes
\* the grid's own extent after a wrapped `width - 1` / `height - 1`).
CoordCap == (IF MaxWidth > MaxHeight THEN MaxWidth ELSE MaxHeight) + 1

(* ---------------------------- constants ------------------------------- *)
CanvasWidth == 800
CanvasHeight == 600
DETAIL_LOOKAROUND == 5
FULL_IMAGE_PIXEL_SCALE == 4
FULL_IMAGE_BORDER_OFFSET == 4
CURRENT_COLOR_PIXEL_SCALE == 16
CURRENT_COLOR_BORDER_OFFSET == 4
MaxDigit == 9

(* ------------------------- Option<bool> pixels ------------------------ *)
None == <<>>
Some(v) == <<v>>
DbBool == {None, Some(TRUE), Some(FALSE)}

(* ------------------------ the persisted document ---------------------- *)
\* What a file holds: text that is not JSON (syntax_ok = FALSE), or a JSON
\* object whose fields width, height and pixels are each absent (<<>>) or
\* present (<<value>>).  A pixel entry is one of the JSON values true,
\* false, null, or some other JSON value ("other", e.g. a number).
Tokens == {"true", "false", "null", "other"}
Garbage == [syntax_ok |-> FALSE, width |-> <<>>, height |-> <<>>, pixels |-> <<>>]

\* serde's Serialize for Option<bool>
PixelToToken(p) == IF p = None THEN "null" ELSE IF p[1] THEN "true" ELSE "false"
\* (mutant of TokenToPixel: false is read as an absent value)
TokenToPixelFalseAsNull(t) == IF t = "true" THEN Some(TRUE) ELSE None
\* serde's Deserialize for Option<bool>; "other" is a type error
TokenToPixel(t) == IF t = "null" THEN None ELSE Some(t = "true")

\* serde_json::to_writer_pretty(f, &image)
to_writer_pretty(img) ==
    [syntax_ok |-> TRUE,
     width |-> <<img.width>>,
     height |-> <<img.height>>,
     pixels |-> << [k \in 1..Len(img.pixels) |-> PixelToToken(img.pixels[k])] >>]

\* serde_json::from_reader(f) for Image: every field must be present, width
\* and height must fit u32, every pixel must be a bool or null.  Nothing
\* else is checked: the derived Deserialize relates no field to another.
from_reader_ok(doc) ==
    /\ doc.syntax_ok
    /\ doc.width # <<>> /\ doc.height # <<>> /\ doc.pixels # <<>>
    /\ U32Ok(doc.width[1]) /\ U32Ok(doc.height[1])
    /\ \A k \in 1..Len(doc.pixels[1]) : doc.pixels[1][k] \in {"true", "false", "null"}

from_reader(doc) ==
    [width |-> doc.width[1],
     height |-> doc.height[1],
     pixels |-> [k \in 1..Len(doc.pixels[1]) |-> TokenToPixel(doc.pixels[1][k])]]

\* The documents an opened file may hold.
UniformSeq(n, t) == [k \in 1..n |-> t]
DocPixels == UNION {[1..n -> Tokens] : n \in 0..MaxCells}
DocWidths == (0..MaxWidth) \cup {W32}
DocHeights == (0..MaxHeight) \cup {W32}
Opt(S) == {<<>>} \cup {<<v>> : v \in S}
\* With all three fields present and in range, the pixel count is the
\* product of width and height, or one off it either way.
NearCount(doc) ==
    (doc.width # <<>> /\ doc.height # <<>> /\ doc.pixels # <<>>
        /\ U32Ok(doc.width[1]) /\ U32Ok(doc.height[1]))
    => (Len(doc.pixels[1]) - doc.width[1] * doc.height[1]) \in -1..1
Docs ==
    {Garbage} \cup
    {doc \in [syntax_ok : {TRUE}, width : Opt(DocWidths), height : Opt(DocHeights),
              pixels : Opt(DocPixels)] : NearCount(doc)}

\* The dimensions `create` may be given (clap parses them as u32).
CreateDims ==
    {<<w, h>> \in (0..MaxWidth) \X (0..MaxHeight) : w * h <= MaxCells}
        \cup {<<HalfWord, HalfWord>>}

(* ------------------------------ Image --------------------------------- *)
\* Image::new: `(width * height)` is a u32 product.
Image_new_panics(width, height, checks) == checks /\ ~U32Ok(width * height)

Image_new(width, height) ==
    [width |-> width, height |-> height,
     pixels |-> UniformSeq(Wrap32(width * height), None)]

NoImage == [width |-> 0, height |-> 0, pixels |-> <<>>]

(* ------------------------------ state --------------------------------- *)
VARIABLES
    pc,              \* where main() is: "start", "render", "poll", "paint",
                     \* "exited", "start_failed" (panic before the session),
                     \* "panicked" (panic inside the session)
    overflow_checks, \* the build profile: TRUE = arithmetic overflow panics
    image,           \* ui_state.image
    x, y,            \* ui_state.x, ui_state.y
    setting_mode,    \* ui_state.setting_mode
    going_right,     \* ui_state.going_right
    digit,           \* the digit of the key being handled (pc = "paint")
    i,               \* iterations of `for _ in 0..digit` completed
    io,              \* the file operation of the step that led here
    run_start,       \* history: the state at the digit key press
    history,         \* whether the two histories below are kept
    trail,           \* history: the cells the digit loops have written since
                     \* the session started, while no other key was handled
    last_run,        \* history: what came last for setting_mode: the session
                     \* start, Keycode::X, or a loop and the value it wrote
    png              \* Mode::ToPng: what the png encoder was handed

vars == <<pc, overflow_checks, image, x, y, setting_mode, going_right,
          digit, i, io, run_start, history, trail, last_run, png>>

NoIo == [op |-> "none", doc |-> Garbage]
Snapshot == [pixels |-> image.pixels, x |-> x, y |-> y,
             setting_mode |-> setting_mode, going_right |-> going_right]
NoRun == [pixels |-> <<>>, x |-> 0, y |-> 0,
          setting_mode |-> FALSE, going_right |-> FALSE]
\* trail.cells lists the indices written, in order, while trail.clean
FreshTrail == [clean |-> TRUE, cells |-> <<>>]
NoTrail == [clean |-> FALSE, cells |-> <<>>]
LastRuns == {"none", "fresh", "toggled", "wrote_true", "wrote_false"}
NoPng == [width |-> 0, height |-> 0, data |-> <<>>]

Init ==
    /\ pc = "start"
    /\ overflow_checks \in BOOLEAN
    /\ image = NoImage
    /\ x = 0 /\ y = 0
    /\ setting_mode = FALSE
    /\ going_right = TRUE
    /\ digit = 0 /\ i = 0
    /\ io = NoIo
    /\ run_start = NoRun
    /\ history = FALSE
    /\ trail = NoTrail
    /\ last_run = "none"
    /\ png = NoPng

\* the same start, with the histories kept
InitHistory ==
    /\ pc = "start"
    /\ overflow_checks \in BOOLEAN
    /\ image = NoImage
    /\ x = 0 /\ y = 0
    /\ setting_mode = FALSE
    /\ going_right = TRUE
    /\ digit = 0 /\ i = 0
    /\ io = NoIo
    /\ run_start = NoRun
    /\ history = TRUE
    /\ trail = NoTrail
    /\ last_run = "none"
    /\ png = NoPng

(* ------------------------------ render -------------------------------- *)
\* render() draws; what it can do to the program is panic.  Each operator
\* below is TRUE when the named part of render() panics: a failed
\* u32 / i32 conversion (the u32!, i32!, usize!, try_into().unwrap()
\* calls), an arithmetic overflow under overflow checks, or an index
\* outside image.pixels.

\* The detailed preview: cells within DETAIL_LOOKAROUND of the cursor that
\* lie inside the image are read at y_coord * width + x_coord (usize).
DetailPanics(img, cx, cy, checks) ==
    \E y_offset \in -DETAIL_LOOKAROUND..DETAIL_LOOKAROUND :
        \/ cy > I32Max
        \/ checks /\ ~I32Ok(cy + y_offset)
        \/ LET y_coord == WrapI32(cy + y_offset) IN
           /\ y_coord >= 0
           /\ \/ img.height > I32Max
              \/ /\ y_coord < img.height
                 /\ \E x_offset \in -DETAIL_LOOKAROUND..DETAIL_LOOKAROUND :
                        \/ cx > I32Max
                        \/ checks /\ ~I32Ok(cx + x_offset)
                        \/ LET x_coord == WrapI32(cx + x_offset) IN
                           /\ x_coord >= 0
                           /\ \/ img.width > I32Max
                              \/ /\ x_coord < img.width
                                 /\ y_coord * img.width + x_coord >= Len(img.pixels)

\* canvas_extent - (FULL_IMAGE_BORDER_OFFSET + FULL_IMAGE_PIXEL_SCALE * cells)
\* in u32: TRUE when it overflows under checks.
ThumbOffsetOverflows(canvas_extent, cells) ==
    \/ ~U32Ok(FULL_IMAGE_PIXEL_SCALE * cells)
    \/ ~U32Ok(FULL_IMAGE_BORDER_OFFSET + FULL_IMAGE_PIXEL_SCALE * cells)
    \/ ~U32Ok(canvas_extent - (FULL_IMAGE_BORDER_OFFSET + FULL_IMAGE_PIXEL_SCALE * cells))

ThumbOffset(canvas_extent, cells) ==
    Wrap32(canvas_extent - (FULL_IMAGE_BORDER_OFFSET + FULL_IMAGE_PIXEL_SCALE * cells))

\* The full image in the bottom right: every cell is read at
\* usize!(y * width + x), a u32 expression; draw_x and draw_y become i32.
ThumbnailPanics(img, checks) ==
    \E ty \in 0..(img.height - 1) :
        \/ checks /\ ThumbOffsetOverflows(CanvasHeight, img.height - ty)
        \/ \E tx \in 0..(img.width - 1) :
               \/ checks /\ ThumbOffsetOverflows(CanvasWidth, img.width - tx)
               \/ checks /\ ~U32Ok(ty * img.width + tx)
               \/ Wrap32(ty * img.width + tx) >= Len(img.pixels)
               \/ ThumbOffset(CanvasWidth, img.width - tx) > I32Max
               \/ ThumbOffset(CanvasHeight, img.height - ty) > I32Max

\* The frame around the full image.
FramePanics(img, checks) ==
    \/ checks /\ ThumbOffsetOverflows(CanvasWidth, img.width)
    \/ checks /\ ThumbOffsetOverflows(CanvasHeight, img.height)
    \/ checks /\ ~U32Ok(img.width * FULL_IMAGE_PIXEL_SCALE)
    \/ checks /\ ~U32Ok(img.height * FULL_IMAGE_PIXEL_SCALE)
    \/ ThumbOffset(CanvasWidth, img.width) > I32Max
    \/ ThumbOffset(CanvasHeight, img.height) > I32Max

\* One coordinate of the preview frame drawn over the full image, in i32:
\* canvas - (offset + scale * (extent - (cursor + 1 - DETAIL_LOOKAROUND))).
IndicatorCoord(canvas_extent, extent, cursor) ==
    canvas_extent - (FULL_IMAGE_BORDER_OFFSET
        + FULL_IMAGE_PIXEL_SCALE * (extent - (cursor + 1 - DETAIL_LOOKAROUND)))

IndicatorCoordPanics(canvas_extent, extent, cursor, checks) ==
    \/ canvas_extent > I32Max \/ extent > I32Max \/ cursor > I32Max
    \/ checks /\ ~I32Ok(cursor + 1)
    \/ checks /\ ~I32Ok(extent - (cursor + 1 - DETAIL_LOOKAROUND))
    \/ checks /\ ~I32Ok(FULL_IMAGE_PIXEL_SCALE * (extent - (cursor + 1 - DETAIL_LOOKAROUND)))
    \/ checks /\ ~I32Ok(IndicatorCoord(canvas_extent, extent, cursor))

IndicatorPanics(img, cx, cy, checks) ==
    \/ IndicatorCoordPanics(CanvasWidth, img.width, cx, checks)
    \/ IndicatorCoordPanics(CanvasHeight, img.height, cy, checks)

\* The rectangle of the preview frame: image_cursor_x, image_cursor_y and
\* image_cursor_size (both sides), as handed to draw_rect.
image_cursor(img, cx, cy) ==
    [x |-> WrapI32(IndicatorCoord(CanvasWidth, img.width, cx)),
     y |-> WrapI32(IndicatorCoord(CanvasHeight, img.height, cy)),
     size |-> FULL_IMAGE_PIXEL_SCALE * (2 * DETAIL_LOOKAROUND + 1)]

\* The current colour in the top right.
SwatchPanics(checks) ==
    \/ checks /\ ~U32Ok(CanvasWidth - (CURRENT_COLOR_BORDER_OFFSET + CURRENT_COLOR_PIXEL_SCALE))
    \/ Wrap32(CanvasWidth - (CURRENT_COLOR_BORDER_OFFSET + CURRENT_COLOR_PIXEL_SCALE)) > I32Max

RenderPanics(img, cx, cy, checks) ==
    \/ DetailPanics(img, cx, cy, checks)
    \/ ThumbnailPanics(img, checks)
    \/ FramePanics(img, checks)
    \/ IndicatorPanics(img, cx, cy, checks)
    \/ SwatchPanics(checks)

(* ----------------------------- start-up ------------------------------- *)
\* UiState::new(image)
UiState_new(img) ==
    /\ image' = img
    /\ x' = 0
    /\ y' = 0
    /\ setting_mode' = FALSE
    /\ going_right' = TRUE

\* Mode::Create: Image::new, then the new image is written to the file.
Create ==
    /\ pc = "start"
    /\ \E d \in CreateDims :
        IF Image_new_panics(d[1], d[2], overflow_checks)
        THEN /\ pc' = "start_failed"
             /\ UNCHANGED <<image, x, y, setting_mode, going_right, io>>
        ELSE /\ UiState_new(Image_new(d[1], d[2]))
             /\ io' = [op |-> "write", doc |-> to_writer_pretty(Image_new(d[1], d[2]))]
             /\ pc' = "render"
    /\ trail' = (IF history THEN FreshTrail ELSE NoTrail)
    /\ last_run' = (IF history THEN "fresh" ELSE "none")
    /\ UNCHANGED <<overflow_checks, digit, i, run_start, history, png>>

\* Mode::Open: the file is read and deserialized; a failure panics
\* ("failed to deserialize image file") before the session exists.
Open ==
    /\ pc = "start"
    /\ \E doc \in Docs :
        /\ io' = [op |-> "read", doc |-> doc]
        /\ IF from_reader_ok(doc)
           THEN /\ UiState_new(from_reader(doc))
                /\ pc' = "render"
           ELSE /\ pc' = "start_failed"
                /\ UNCHANGED <<image, x, y, setting_mode, going_right>>
    /\ trail' = (IF history THEN FreshTrail ELSE NoTrail)
    /\ last_run' = (IF history THEN "fresh" ELSE "none")
    /\ UNCHANGED <<overflow_checks, digit, i, run_start, history, png>>

\* (mutant of PixelByte: an unset pixel is black)
PixelByteUnsetBlack(p) == IF p = None THEN 0 ELSE IF p[1] THEN 255 ELSE 0
\* Option<bool> to a grayscale byte: 0xFF, 0x00, 0x7F
PixelByte(p) == IF p = None THEN 127 ELSE IF p[1] THEN 255 ELSE 0

\* pixel_data: one byte pushed per entry of image.pixels, in order
pixel_data(img) == [k \in 1..Len(img.pixels) |-> PixelByte(img.pixels[k])]

\* Mode::ToPng: the file is read and deserialized as in Mode::Open, the png
\* encoder is given image.width, image.height and pixel_data, and main
\* returns.  What the encoder does with them is outside this model.
ToPng ==
    /\ pc = "start"
    /\ \E doc \in Docs :
        /\ io' = [op |-> "read", doc |-> doc]
        /\ IF from_reader_ok(doc)
           THEN /\ image' = from_reader(doc)
                /\ png' = [width |-> from_reader(doc).width,
                           height |-> from_reader(doc).height,
                           data |-> pixel_data(from_reader(doc))]
                /\ pc' = "exported"
           ELSE /\ pc' = "start_failed"
                /\ UNCHANGED <<image, png>>
    /\ UNCHANGED <<overflow_checks, x, y, setting_mode, going_right,
                   digit, i, run_start, history, trail, last_run>>

(* ----------------------------- main loop ------------------------------ *)
\* render(&mut canvas, &ui_state) at the top of 'running
Render ==
    /\ pc = "render"
    /\ pc' = IF RenderPanics(image, x, y, overflow_checks) THEN "panicked" ELSE "poll"
    /\ io' = NoIo
    /\ UNCHANGED <<overflow_checks, image, x, y, setting_mode, going_right,
                   digit, i, run_start, history, trail, last_run, png>>

\* (mutant of PollDone: a frame is drawn between two iterations of a loop)
PollDoneMidLoop ==
    /\ pc \in {"poll", "paint"}
    /\ pc' = "render"
    /\ io' = NoIo
    /\ UNCHANGED <<overflow_checks, image, x, y, setting_mode, going_right,
                   digit, i, run_start, history, trail, last_run, png>>

\* event_pump.poll_iter() has no further event: present, sleep, next frame
PollDone ==
    /\ pc = "poll"
    /\ pc' = "render"
    /\ io' = NoIo
    /\ UNCHANGED <<overflow_checks, image, x, y, setting_mode, going_right,
                   digit, i, run_start, history, trail, last_run, png>>

\* Event::Quit, Keycode::Escape
Quit ==
    /\ pc = "poll"
    /\ pc' = "exited"
    /\ io' = NoIo
    /\ UNCHANGED <<overflow_checks, image, x, y, setting_mode, going_right,
                   digit, i, run_start, history, trail, last_run, png>>

(* --------------------------- key handlers ----------------------------- *)
\* Every handler runs with the event loop polling (pc = "poll") and does no
\* file operation except Keycode::S.
Handling ==
    /\ pc = "poll"
    /\ trail' = NoTrail
    /\ UNCHANGED <<overflow_checks, digit, i, run_start, history, png>>

\* `extent - 1` in u32 (ui_state.image.width - 1, ui_state.image.height - 1)
LastOverflows(extent) == ~U32Ok(extent - 1)
\* (mutant of Last: the boundary test against the extent itself)
LastOffByOne(extent) == Wrap32(extent)
Last(extent) == Wrap32(extent - 1)

\* usize!(ui_state.y * ui_state.image.width + ui_state.x), a u32 expression
IndexOverflows(img, cx, cy) == ~U32Ok(cy * img.width) \/ ~U32Ok(cy * img.width + cx)
image_index(img, cx, cy) == Wrap32(cy * img.width + cx)

\* ui_state.image.pixels[image_index] = value; pixels is indexed from 0
SetPixel(pixels, index, value) == [pixels EXCEPT ![index + 1] = value]

\* Keycode::R
KeyR ==
    /\ Handling
    /\ going_right' = ~going_right
    /\ io' = NoIo
    /\ UNCHANGED <<pc, image, x, y, setting_mode, last_run>>

\* Keycode::X
KeyX ==
    /\ Handling
    /\ setting_mode' = ~setting_mode
    /\ io' = NoIo
    /\ last_run' = (IF history THEN "toggled" ELSE "none")
    /\ UNCHANGED <<pc, image, x, y, going_right>>

\* Keycode::S: save the current image
KeyS ==
    /\ Handling
    /\ io' = [op |-> "write", doc |-> to_writer_pretty(image)]
    /\ UNCHANGED <<pc, image, x, y, setting_mode, going_right, last_run>>

\* (mutant of KeyLeft: the cursor wraps to the last column)
KeyLeftWraps ==
    /\ Handling
    /\ x' = IF x > 0 THEN x - 1 ELSE Last(image.width)
    /\ io' = NoIo
    /\ UNCHANGED <<pc, image, y, setting_mode, going_right, last_run>>

\* Keycode::Left
KeyLeft ==
    /\ Handling
    /\ x' = IF x > 0 THEN x - 1 ELSE x
    /\ io' = NoIo
    /\ UNCHANGED <<pc, image, y, setting_mode, going_right, last_run>>

\* Keycode::Right
KeyRight ==
    /\ Handling
    /\ io' = NoIo
    /\ IF overflow_checks /\ LastOverflows(image.width)
       THEN pc' = "panicked" /\ UNCHANGED x
       ELSE /\ x < Last(image.width) => x + 1 < CoordCap
            /\ x' = IF x < Last(image.width) THEN x + 1 ELSE x
            /\ UNCHANGED pc
    /\ UNCHANGED <<image, y, setting_mode, going_right, last_run>>

\* Keycode::Up
KeyUp ==
    /\ Handling
    /\ y' = IF y > 0 THEN y - 1 ELSE y
    /\ io' = NoIo
    /\ UNCHANGED <<pc, image, x, setting_mode, going_right, last_run>>

\* Keycode::Down
KeyDown ==
    /\ Handling
    /\ io' = NoIo
    /\ IF overflow_checks /\ LastOverflows(image.height)
       THEN pc' = "panicked" /\ UNCHANGED y
       ELSE /\ y < Last(image.height) => y + 1 < CoordCap
            /\ y' = IF y < Last(image.height) THEN y + 1 ELSE y
            /\ UNCHANGED pc
    /\ UNCHANGED <<image, x, setting_mode, going_right, last_run>>

\* (mutant of KeyHome: only the column is reset)
KeyHomeColumnOnly ==
    /\ Handling
    /\ x' = 0
    /\ io' = NoIo
    /\ UNCHANGED <<pc, image, y, setting_mode, going_right, last_run>>

\* Keycode::Home
KeyHome ==
    /\ Handling
    /\ x' = 0
    /\ y' = 0
    /\ io' = NoIo
    /\ UNCHANGED <<pc, image, setting_mode, going_right, last_run>>

\* (mutant of SetCurrent: T and F write the paint value)
SetCurrentPaintValue(value) ==
    /\ Handling
    /\ io' = NoIo
    /\ IF \/ overflow_checks /\ IndexOverflows(image, x, y)
          \/ image_index(image, x, y) >= Len(image.pixels)
       THEN pc' = "panicked" /\ UNCHANGED image
       ELSE /\ image' = [image EXCEPT
                  !.pixels = SetPixel(image.pixels, image_index(image, x, y),
                                    IF value = None THEN None ELSE Some(setting_mode))]
            /\ UNCHANGED pc
    /\ UNCHANGED <<x, y, setting_mode, going_right, last_run>>

\* Keycode::T, Keycode::F, Keycode::Backspace | Keycode::Delete: set the
\* current pixel to Some(true), Some(false), None
SetCurrent(value) ==
    /\ Handling
    /\ io' = NoIo
    /\ IF \/ overflow_checks /\ IndexOverflows(image, x, y)
          \/ image_index(image, x, y) >= Len(image.pixels)
       THEN pc' = "panicked" /\ UNCHANGED image
       ELSE /\ image' = [image EXCEPT
                  !.pixels = SetPixel(image.pixels, image_index(image, x, y), value)]
            /\ UNCHANGED pc
    /\ UNCHANGED <<x, y, setting_mode, going_right, last_run>>

KeyT == SetCurrent(Some(TRUE))
KeyF == SetCurrent(Some(FALSE))
KeyBackspaceDelete == SetCurrent(None)

(* --------------------------- the digit keys --------------------------- *)
\* The keys keycode_to_digit knows, as <<row, digit>>, and one it does not.
Keycodes == ({"Num", "Kp"} \X (0..MaxDigit)) \cup {<<"Other", 0>>}
keycode_to_digit(keycode) ==
    IF keycode[1] \in {"Num", "Kp"} THEN Some(keycode[2]) ELSE None

\* ui_state as one record, for the loop body below
UiState(img, cx, cy, mode, right) ==
    [image |-> img, x |-> cx, y |-> cy, setting_mode |-> mode, going_right |-> right]
ui_state == UiState(image, x, y, setting_mode, going_right)

\* The cursor's move at the end of one iteration (lines 361-379).
AdvancePanics(u, checks) ==
    IF u.going_right
    THEN \/ checks /\ LastOverflows(u.image.width)
         \/ /\ ~(u.x < Last(u.image.width))
            /\ checks /\ LastOverflows(u.image.height)
    ELSE /\ ~(u.x > 0)
         /\ checks /\ LastOverflows(u.image.height)

\* (mutant of Advance: the row advances without the last-row test)
AdvancePastLastRow(u) ==
    IF u.going_right
    THEN IF u.x < Last(u.image.width)
         THEN [u EXCEPT !.x = u.x + 1]
         ELSE [u EXCEPT !.going_right = FALSE, !.y = u.y + 1]
    ELSE IF u.x > 0
         THEN [u EXCEPT !.x = u.x - 1]
         ELSE [u EXCEPT !.going_right = TRUE, !.y = u.y + 1]

\* (mutant of Advance: at the left edge the direction flips but the row
\* does not advance)
AdvanceLeftEdgeStays(u) ==
    IF u.going_right
    THEN IF u.x < Last(u.image.width)
         THEN [u EXCEPT !.x = u.x + 1]
         ELSE [u EXCEPT !.going_right = FALSE,
                        !.y = IF u.y < Last(u.image.height) THEN u.y + 1 ELSE u.y]
    ELSE IF u.x > 0
         THEN [u EXCEPT !.x = u.x - 1]
         ELSE [u EXCEPT !.going_right = TRUE]

\* (mutant of Advance: the cursor descends at an edge without turning round)
AdvanceKeepsDirection(u) ==
    IF u.going_right
    THEN IF u.x < Last(u.image.width)
         THEN [u EXCEPT !.x = u.x + 1]
         ELSE [u EXCEPT !.y = IF u.y < Last(u.image.height) THEN u.y + 1 ELSE u.y]
    ELSE IF u.x > 0
         THEN [u EXCEPT !.x = u.x - 1]
         ELSE [u EXCEPT !.y = IF u.y < Last(u.image.height) THEN u.y + 1 ELSE u.y]

Advance(u) ==
    IF u.going_right
    THEN IF u.x < Last(u.image.width)
         THEN [u EXCEPT !.x = u.x + 1]
         ELSE [u EXCEPT !.going_right = FALSE,
                        !.y = IF u.y < Last(u.image.height) THEN u.y + 1 ELSE u.y]
    ELSE IF u.x > 0
         THEN [u EXCEPT !.x = u.x - 1]
         ELSE [u EXCEPT !.going_right = TRUE,
                        !.y = IF u.y < Last(u.image.height) THEN u.y + 1 ELSE u.y]

\* One iteration of `for _ in 0..digit`: write Some(setting_mode) at the
\* cursor, then move the cursor.
WritePanics(u, checks) ==
    \/ checks /\ IndexOverflows(u.image, u.x, u.y)
    \/ image_index(u.image, u.x, u.y) >= Len(u.image.pixels)

\* (mutant of Written: the value written is the negated mode)
WrittenNegated(u) ==
    [u EXCEPT !.image.pixels =
        SetPixel(u.image.pixels, image_index(u.image, u.x, u.y), Some(~u.setting_mode))]

Written(u) ==
    [u EXCEPT !.image.pixels =
        SetPixel(u.image.pixels, image_index(u.image, u.x, u.y), Some(u.setting_mode))]

IterationPanics(u, checks) ==
    WritePanics(u, checks) \/ AdvancePanics(Written(u), checks)

Iteration(u) == Advance(Written(u))

\* `for _ in 0..digit { ... }` as a whole, for a loop no iteration of which
\* panics: n iterations from u.
RECURSIVE Loop(_, _)
Loop(u, n) == IF n = 0 THEN u ELSE Loop(Iteration(u), n - 1)

\* any other key: a digit key starts the loop, every other key does nothing
KeyOther ==
    /\ pc = "poll"
    /\ io' = NoIo
    /\ \E keycode \in Keycodes :
        IF keycode_to_digit(keycode) # None
        THEN /\ pc' = "paint"
             /\ digit' = keycode_to_digit(keycode)[1]
             /\ i' = 0
             /\ run_start' = Snapshot
        ELSE UNCHANGED <<pc, digit, i, run_start>>
    /\ UNCHANGED <<overflow_checks, image, x, y, setting_mode, going_right,
                   history, trail, last_run, png>>

\* history: the trail grows by the index written, until it holds as many
\* indices as the image has cells
Trailed(t, img, cx, cy) ==
    IF t.clean /\ Len(t.cells) < img.width * img.height
    THEN [t EXCEPT !.cells = Append(t.cells, image_index(img, cx, cy))]
    ELSE NoTrail

\* one iteration of the loop
PaintStep ==
    /\ pc = "paint"
    /\ i < digit
    /\ io' = NoIo
    /\ IF IterationPanics(ui_state, overflow_checks)
       THEN /\ pc' = "panicked"
            /\ trail' = NoTrail
            /\ UNCHANGED <<image, x, y, going_right, i>>
       ELSE /\ Iteration(ui_state).x < CoordCap
            /\ Iteration(ui_state).y < CoordCap
            /\ image' = Iteration(ui_state).image
            /\ x' = Iteration(ui_state).x
            /\ y' = Iteration(ui_state).y
            /\ going_right' = Iteration(ui_state).going_right
            /\ i' = i + 1
            /\ trail' = Trailed(trail, image, x, y)
            /\ UNCHANGED pc
    /\ UNCHANGED <<overflow_checks, setting_mode, digit, run_start,
                   history, last_run, png>>

\* (mutant of PaintEnd: a loop of no iteration leaves the mode alone)
PaintEndSkipsZero ==
    /\ pc = "paint"
    /\ i = digit
    /\ setting_mode' = IF digit = 0 THEN setting_mode ELSE ~setting_mode
    /\ pc' = "poll"
    /\ digit' = 0
    /\ i' = 0
    /\ run_start' = NoRun
    /\ io' = NoIo
    /\ last_run' = (IF ~history THEN "none"
                    ELSE IF setting_mode THEN "wrote_true" ELSE "wrote_false")
    /\ UNCHANGED <<overflow_checks, image, x, y, going_right, history, trail, png>>

\* (mutant of PaintEnd: the paint value is left as it was)
PaintEndKeepsMode ==
    /\ pc = "paint"
    /\ i = digit
    /\ setting_mode' = setting_mode
    /\ pc' = "poll"
    /\ digit' = 0
    /\ i' = 0
    /\ run_start' = NoRun
    /\ io' = NoIo
    /\ last_run' = (IF ~history THEN "none"
                    ELSE IF setting_mode THEN "wrote_true" ELSE "wrote_false")
    /\ UNCHANGED <<overflow_checks, image, x, y, going_right, history, trail, png>>

\* the loop is over: ui_state.setting_mode = !ui_state.setting_mode
PaintEnd ==
    /\ pc = "paint"
    /\ i = digit
    /\ setting_mode' = ~setting_mode
    /\ pc' = "poll"
    /\ digit' = 0
    /\ i' = 0
    /\ run_start' = NoRun
    /\ io' = NoIo
    /\ last_run' = (IF ~history THEN "none"
                    ELSE IF setting_mode THEN "wrote_true" ELSE "wrote_false")
    /\ UNCHANGED <<overflow_checks, image, x, y, going_right, history, trail, png>>

Next ==
    \/ Create \/ Open \/ ToPng
    \/ Render \/ PollDone \/ Quit
    \/ KeyR \/ KeyX \/ KeyS
    \/ KeyLeft \/ KeyRight \/ KeyUp \/ KeyDown \/ KeyHome
    \/ KeyT \/ KeyF \/ KeyBackspaceDelete
    \/ KeyOther \/ PaintStep \/ PaintEnd

Spec == Init /\ [][Next]_vars

\* the same program, with the histories trail and last_run kept
SpecHistory == InitHistory /\ [][Next]_vars

(* ======================================================================= *)
(*                               properties                                *)
(* ======================================================================= *)
\* A session exists: UiState::new has run.
InSession == pc \in {"render", "poll", "paint", "exited", "panicked"}
\* The grid has at least one column and one row.
ValidDims == image.width >= 1 /\ image.height >= 1
\* The grid is as the data model describes it.
ValidGrid == ValidDims /\ Len(image.pixels) = image.width * image.height
\* A digit key's loop is running, and it started in the last cell of the
\* last row.
RunFromLastRow == pc = "paint" /\ ValidDims /\ run_start.y = image.height - 1
RunFromLastCell ==
    RunFromLastRow /\ run_start.x = image.width - 1 /\ run_start.going_right

\* C1: in a session on a grid with width >= 1 and height >= 1 the cursor is
\* inside the grid, 0 <= x < width and 0 <= y < height, after every command
\* and after every single iteration of a digit key's loop.
C1_CursorInBounds ==
    (InSession /\ ValidDims) =>
        (0 <= x /\ x < image.width /\ 0 <= y /\ y < image.height)

\* C1 witness: inside a digit key's loop, after at least one iteration, the
\* cursor is in the last cell of the last row of a grid with two rows and
\* two columns or more.
C1_Witness ==
    /\ pc = "paint" /\ i >= 1
    /\ image.width >= 2 /\ image.height >= 2
    /\ x = image.width - 1 /\ y = image.height - 1

\* C2 (as claimed): in every state of a session in which a command is
\* awaited or being handled, the number of cells is width * height.
C2_GridShape ==
    pc \in {"poll", "paint"} => Len(image.pixels) = image.width * image.height

\* C3 (as claimed): a digit key's loop that starts in the last cell of the
\* last row going right leaves the cursor in that cell after every
\* iteration.
C3_SaturationAsClaimed ==
    RunFromLastCell => (x = image.width - 1 /\ y = image.height - 1)

\* C3 (amended): such a loop leaves the cursor in that cell, now going
\* left, after its first iteration; after every later iteration the cursor
\* is still in the last row (and, on a grid one column wide, still in that
\* cell).  A loop that starts anywhere in the last row stays in the last row.
C3_Saturation ==
    /\ RunFromLastRow => (y = image.height - 1 /\ x < image.width)
    /\ (RunFromLastCell /\ i = 1) => (x = image.width - 1 /\ ~going_right)
    /\ (RunFromLastCell /\ image.width = 1) => x = 0

\* C3 witness: in such a loop, two iterations or more done, the cursor has
\* left the last cell along the last row.
C3_Witness ==
    /\ RunFromLastCell /\ i >= 2
    /\ image.width >= 2 /\ image.height >= 2
    /\ x = image.width - 2 /\ y = image.height - 1

\* C2 (the part that holds): no step of a session changes width, height or
\* the number of cells.
C2_NoResize ==
    [][InSession =>
        /\ image'.width = image.width
        /\ image'.height = image.height
        /\ Len(image'.pixels) = Len(image.pixels)]_vars

\* One iteration of a digit key's loop has just been done.
IterationDone == pc = "paint" /\ pc' = "paint" /\ i' = i + 1
\* The cells whose value differs from the one at the key press.
Rewritten == {k \in 1..Len(image.pixels) : image.pixels[k] # run_start.pixels[k]}

\* The serpentine order as section 4.3 words it, in unbounded integers.
SerpentineAdvance(w, h, cx, cy, right) ==
    IF right
    THEN IF cx < w - 1 THEN <<cx + 1, cy, TRUE>>
         ELSE <<cx, IF cy < h - 1 THEN cy + 1 ELSE cy, FALSE>>
    ELSE IF cx > 0 THEN <<cx - 1, cy, FALSE>>
         ELSE <<cx, IF cy < h - 1 THEN cy + 1 ELSE cy, TRUE>>

\* The seed case: a 3 x 3 grid, every cell unset, cursor (2,1), rightward,
\* paint_value false, and what three iterations make of it.
Seed3x3 ==
    UiState([width |-> 3, height |-> 3, pixels |-> UniformSeq(9, None)],
            2, 1, FALSE, TRUE)
C4_SeedCase ==
    /\ ~IterationPanics(Seed3x3, TRUE)
    /\ ~IterationPanics(Loop(Seed3x3, 1), TRUE)
    /\ ~IterationPanics(Loop(Seed3x3, 2), TRUE)
    /\ Loop(Seed3x3, 1).x = 2 /\ Loop(Seed3x3, 1).y = 2
    /\ Loop(Seed3x3, 2).x = 1 /\ Loop(Seed3x3, 2).y = 2
    /\ Loop(Seed3x3, 3).x = 0 /\ Loop(Seed3x3, 3).y = 2
    /\ ~Loop(Seed3x3, 3).going_right
    /\ ~Loop(Seed3x3, 3).setting_mode
    /\ Loop(Seed3x3, 3).image.pixels =
         [k \in 1..9 |-> IF k \in {1 * 3 + 2 + 1, 2 * 3 + 2 + 1, 2 * 3 + 1 + 1}
                         THEN Some(FALSE) ELSE None]

\* C4: on a grid as the data model describes it, a digit key n runs exactly
\* n iterations and then ends: the loop counts from 0, each iteration writes
\* the paint value of the key press into the cell under the cursor and then
\* moves the cursor one serpentine step, no iteration fails, the loop ends
\* when n iterations are done and not before; cells the loop did not visit
\* keep their value; and the 3 x 3 seed case comes out as stated.
C4_PaintRun ==
    /\ [](C4_SeedCase)
    /\ []((pc = "paint" /\ ValidGrid) =>
            /\ i <= digit /\ digit <= MaxDigit
            /\ i < digit => ~IterationPanics(ui_state, overflow_checks)
            /\ \A k \in Rewritten : image.pixels[k] = Some(run_start.setting_mode)
            /\ Cardinality(Rewritten) <= i)
    /\ [][/\ (pc = "poll" /\ pc' = "paint") =>
                (i' = 0 /\ run_start' = Snapshot /\ UNCHANGED <<image, x, y, going_right>>)
          /\ (pc = "paint" /\ ValidGrid /\ i < digit) =>
                /\ IterationDone
                /\ digit' = digit
                /\ image' = [image EXCEPT !.pixels =
                      [image.pixels EXCEPT ![y * image.width + x + 1] =
                          Some(run_start.setting_mode)]]
                /\ <<x', y', going_right'>> =
                      SerpentineAdvance(image.width, image.height, x, y, going_right)
          /\ (pc = "paint" /\ i = digit) =>
                (pc' = "poll" /\ UNCHANGED <<image, x, y, going_right>>)]_vars

\* C4 witness: a loop of three iterations has done all three on a grid of
\* two rows and two columns, and has rewritten three cells.
C4_Witness ==
    /\ pc = "paint" /\ ValidGrid /\ digit = 3 /\ i = 3
    /\ image.width = 2 /\ image.height = 2
    /\ Cardinality(Rewritten) = 3

\* C5: the step that ends a digit key's loop negates the paint value the
\* key press found, whatever the digit; the loop itself never changes the
\* paint value; digit 0 is a digit key (both rows of keys), and its loop
\* writes no cell and leaves the cursor and the direction as they were.
C5_ModeFlip ==
    /\ [](\A n \in 0..MaxDigit :
            keycode_to_digit(<<"Num", n>>) = Some(n) /\ keycode_to_digit(<<"Kp", n>>) = Some(n))
    /\ [](pc = "paint" =>
            /\ setting_mode = run_start.setting_mode
            /\ digit = 0 =>
                (image.pixels = run_start.pixels /\ x = run_start.x
                    /\ y = run_start.y /\ going_right = run_start.going_right))
    /\ [][(pc = "paint" /\ pc' = "poll") =>
            (setting_mode' = ~run_start.setting_mode
                /\ UNCHANGED <<image, x, y, going_right>>)]_vars

\* C5 witness: the loop of digit 0 is at its end with the paint value true
\* (an earlier loop has flipped it) and the cursor away from the origin.
C5_Witness ==
    /\ pc = "paint" /\ digit = 0 /\ i = 0 /\ ValidGrid
    /\ setting_mode /\ x > 0 /\ y > 0

\* C6: one iteration started at the right end of a row above the last one,
\* going right, ends going left one row down in the same column; started at
\* the left end going left, it ends going right one row down in the same
\* column; started away from the end of the row it is running towards, it
\* moves the cursor one column in its direction and changes neither the row
\* nor the direction.
C6_SerpentineBoundary ==
    [][IterationDone =>
        /\ (going_right /\ x = image.width - 1 /\ y < image.height - 1) =>
              (~going_right' /\ x' = image.width - 1 /\ y' = y + 1)
        /\ (~going_right /\ x = 0 /\ y < image.height - 1) =>
              (going_right' /\ x' = 0 /\ y' = y + 1)
        /\ (going_right /\ x < image.width - 1) =>
              (x' = x + 1 /\ y' = y /\ going_right')
        /\ (~going_right /\ x > 0) =>
              (x' = x - 1 /\ y' = y /\ ~going_right')]_vars

\* C6 witness: inside a loop, the cursor has just come down the left edge:
\* it is in column 0 going right, one row or more below where the loop
\* started, on a grid with two columns or more.
C6_Witness ==
    /\ pc = "paint" /\ i >= 1 /\ ValidGrid
    /\ image.width >= 2
    /\ x = 0 /\ going_right /\ ~run_start.going_right
    /\ y = run_start.y + 1

\* C7 (as claimed): whenever a command is awaited or being handled, the
\* cell index y * width + x is computed without overflow and lies inside
\* the cell sequence, and width - 1 and height - 1 do not underflow.
C7_CommandsNeverFail ==
    pc \in {"poll", "paint"} =>
        /\ ~IndexOverflows(image, x, y)
        /\ y * image.width + x < Len(image.pixels)
        /\ ~LastOverflows(image.width)
        /\ ~LastOverflows(image.height)

\* A document the claim calls malformed: a JSON object in which width or
\* height is missing or zero, or whose pixel count is not width * height.
Malformed(doc) ==
    /\ doc.syntax_ok
    /\ \/ doc.width = <<>>
       \/ doc.height = <<>>
       \/ doc.width[1] = 0
       \/ doc.height[1] = 0
       \/ /\ doc.pixels # <<>>
          /\ U32Ok(doc.width[1]) /\ U32Ok(doc.height[1])
          /\ Len(doc.pixels[1]) # doc.width[1] * doc.height[1]

\* C8 (as claimed): after a malformed document has been read the program
\* has failed before any session.
C8_LoadRejectsMalformed ==
    (io.op = "read" /\ Malformed(io.doc)) => pc = "start_failed"

\* C9 (as claimed): when `create` has succeeded (the new image is written
\* and the session starts), width and height are at least 1, their product
\* fits the word, and the grid has exactly width * height cells, all unset.
C9_CreateRejects ==
    (pc = "render" /\ io.op = "write") =>
        /\ image.width >= 1 /\ image.height >= 1
        /\ U32Ok(image.width * image.height)
        /\ Len(image.pixels) = image.width * image.height
        /\ \A k \in 1..Len(image.pixels) : image.pixels[k] = None

\* C10: on a grid with width >= 1 and height >= 1 each arrow key moves the
\* cursor one cell in its direction and does nothing at the grid's edge on
\* that side; it changes neither the other coordinate, nor the paint value,
\* nor the direction, nor a cell, and it does not fail.
C10_Moves ==
    [][ValidDims =>
        /\ KeyLeft =>
             /\ x' = (IF x = 0 THEN x ELSE x - 1)
             /\ UNCHANGED <<pc, y, setting_mode, going_right, image>>
        /\ KeyRight =>
             /\ x' = (IF x = image.width - 1 THEN x ELSE x + 1)
             /\ UNCHANGED <<pc, y, setting_mode, going_right, image>>
        /\ KeyUp =>
             /\ y' = (IF y = 0 THEN y ELSE y - 1)
             /\ UNCHANGED <<pc, x, setting_mode, going_right, image>>
        /\ KeyDown =>
             /\ y' = (IF y = image.height - 1 THEN y ELSE y + 1)
             /\ UNCHANGED <<pc, x, setting_mode, going_right, image>>]_vars

\* C10 witness: on a fresh grid of two rows and two columns or more (every
\* cell unset, going right, paint value false) the cursor stands in the last
\* cell of the last row.
C10_Witness ==
    /\ pc = "poll" /\ ValidGrid
    /\ image.width >= 2 /\ image.height >= 2
    /\ x = image.width - 1 /\ y = image.height - 1
    /\ going_right /\ ~setting_mode
    /\ \A k \in 1..Len(image.pixels) : image.pixels[k] = None

\* The effect C11 gives for SetCurrent(value): the cell at index
\* y * width + x holds value, every other cell is as before, there are as
\* many cells as before, and nothing else of the session has changed.
CellSet(value) ==
    /\ Len(image'.pixels) = Len(image.pixels)
    /\ \A k \in 1..Len(image.pixels) :
         image'.pixels[k] = (IF k - 1 = y * image.width + x THEN value
                             ELSE image.pixels[k])
    /\ image'.width = image.width /\ image'.height = image.height
    /\ UNCHANGED <<pc, x, y, setting_mode, going_right>>

\* C11: on a grid as the data model describes it, with the cursor inside it,
\* the keys T, F and Backspace/Delete set exactly the cell at index
\* y * width + x to true, false and unset; every other cell, the cursor, the
\* paint value and the direction are unchanged, whatever the paint value is.
C11_SetCurrent ==
    [][(ValidGrid /\ x < image.width /\ y < image.height) =>
        /\ KeyT => CellSet(Some(TRUE))
        /\ KeyF => CellSet(Some(FALSE))
        /\ KeyBackspaceDelete => CellSet(None)]_vars

\* C11 witness: on a grid of two rows and two columns, with the paint value
\* false, the cell under the cursor in the last row and column is the only
\* one set, and it is true.
C11_Witness ==
    /\ pc = "poll" /\ ValidGrid
    /\ image.width = 2 /\ image.height = 2
    /\ x = 1 /\ y = 1 /\ ~setting_mode
    /\ image.pixels = <<None, None, None, Some(TRUE)>>

\* C12: what Keycode::S (or create) has written loads back as the very grid
\* that was saved, for every grid as the data model describes it: the same
\* width, height and cells, a true cell written as true, a false cell as
\* false and an unset cell as null; the same holds of every such grid a
\* session reaches, were it saved.
C12_RoundTrip ==
    ValidGrid =>
        /\ InSession =>
              /\ from_reader_ok(to_writer_pretty(image))
              /\ from_reader(to_writer_pretty(image)) = image
        /\ io.op = "write" =>
              /\ from_reader_ok(io.doc)
              /\ from_reader(io.doc).width = image.width
              /\ from_reader(io.doc).height = image.height
              /\ from_reader(io.doc).pixels = image.pixels
              /\ Len(io.doc.pixels[1]) = Len(image.pixels)
              /\ \A k \in 1..Len(image.pixels) :
                   /\ image.pixels[k] = Some(TRUE) => io.doc.pixels[1][k] = "true"
                   /\ image.pixels[k] = Some(FALSE) => io.doc.pixels[1][k] = "false"
                   /\ image.pixels[k] = None => io.doc.pixels[1][k] = "null"

\* C12 witness: a grid holding a true, a false and an unset cell has just
\* been saved.
C12_Witness ==
    /\ pc = "poll" /\ io.op = "write" /\ ValidGrid
    /\ \A v \in DbBool : \E k \in 1..Len(image.pixels) : image.pixels[k] = v

\* C13: when to-png has run on the file of a grid as the data model describes
\* it, the encoder has been handed the grid's own width and height and a
\* buffer of exactly width * height bytes, and the byte of the cell in column
\* cx of row cy is at index cy * width + cx: 0xFF for true, 0x00 for false,
\* 0x7F for unset.  The grid of width 2 and height 1 with the cells true,
\* unset gives the bytes 0xFF, 0x7F with width 2 and height 1.
C13_ExportRaster ==
    (pc = "exported" /\ ValidGrid) =>
        /\ png.width = io.doc.width[1] /\ png.height = io.doc.height[1]
        /\ png.width = image.width /\ png.height = image.height
        /\ Len(png.data) = image.width * image.height
        /\ \A cx \in 0..(image.width - 1), cy \in 0..(image.height - 1) :
             LET k == cy * image.width + cx + 1 IN
             /\ io.doc.pixels[1][k] = "true" => png.data[k] = 255
             /\ io.doc.pixels[1][k] = "false" => png.data[k] = 0
             /\ io.doc.pixels[1][k] = "null" => png.data[k] = 127
             /\ image.pixels[k] = Some(TRUE) => png.data[k] = 255
             /\ image.pixels[k] = Some(FALSE) => png.data[k] = 0
             /\ image.pixels[k] = None => png.data[k] = 127
        /\ (image = [width |-> 2, height |-> 1, pixels |-> <<Some(TRUE), None>>]) =>
             png = [width |-> 2, height |-> 1, data |-> <<255, 127>>]

\* C13 witness: to-png has run on the file of the grid of width 2 and height
\* 1 with the cells true, unset.
C13_Witness ==
    /\ pc = "exported"
    /\ io.doc.pixels = << <<"true", "null">> >>
    /\ image = [width |-> 2, height |-> 1, pixels |-> <<Some(TRUE), None>>]

\* The position C14 gives for a cell of the full image, along one axis:
\* canvas - 4 - 4 * (extent - cell).
ThumbnailCellAt(canvas_extent, extent, cell) ==
    canvas_extent - FULL_IMAGE_BORDER_OFFSET - FULL_IMAGE_PIXEL_SCALE * (extent - cell)

\* A frame is about to be drawn of a grid as the data model describes it,
\* and drawing it does not fail.
Drawing == pc = "render" /\ ValidGrid /\ ~RenderPanics(image, x, y, overflow_checks)

\* C14: the preview frame drawn over the full image has its top-left corner
\* where the full image has (or would have) the cell (x - 5, y - 5), the first
\* cell of the 11 x 11 detail window, and a side of 44 pixels; the full
\* image draws cell (tx, ty) at
\* (canvas_width - 4 - 4 * (width - tx), canvas_height - 4 - 4 * (height - ty)).
C14_Indicator ==
    Drawing =>
        /\ \A tx \in 0..(image.width - 1) :
             ThumbOffset(CanvasWidth, image.width - tx)
                 = ThumbnailCellAt(CanvasWidth, image.width, tx)
        /\ \A ty \in 0..(image.height - 1) :
             ThumbOffset(CanvasHeight, image.height - ty)
                 = ThumbnailCellAt(CanvasHeight, image.height, ty)
        /\ image_cursor(image, x, y).size = 44
        /\ image_cursor(image, x, y).x
             = ThumbnailCellAt(CanvasWidth, image.width, x - DETAIL_LOOKAROUND)
        /\ image_cursor(image, x, y).y
             = ThumbnailCellAt(CanvasHeight, image.height, y - DETAIL_LOOKAROUND)

\* What the code draws instead: the frame starts at the cell (x - 4, y - 4),
\* one cell (4 pixels) right of and below the first cell of the detail
\* window, so it covers the columns x - 4 .. x + 6 and the rows
\* y - 4 .. y + 6.  Its side and the positions of the full image's cells are
\* as C14 says.
C14_IndicatorAsBuilt ==
    Drawing =>
        /\ \A tx \in 0..(image.width - 1) :
             ThumbOffset(CanvasWidth, image.width - tx)
                 = ThumbnailCellAt(CanvasWidth, image.width, tx)
        /\ \A ty \in 0..(image.height - 1) :
             ThumbOffset(CanvasHeight, image.height - ty)
                 = ThumbnailCellAt(CanvasHeight, image.height, ty)
        /\ image_cursor(image, x, y).size = 44
        /\ image_cursor(image, x, y).x
             = ThumbnailCellAt(CanvasWidth, image.width, x - DETAIL_LOOKAROUND + 1)
        /\ image_cursor(image, x, y).y
             = ThumbnailCellAt(CanvasHeight, image.height, y - DETAIL_LOOKAROUND + 1)

\* C15: a frame is drawn only between commands: when render is about to run
\* no digit key's loop is in progress, the step before it was the start of
\* the session or the end of event polling, a loop in progress goes on to
\* its next iteration or its end (or fails) and never to a frame, and render
\* itself changes nothing of the grid or the navigator state.
C15_RenderAtomic ==
    [][/\ pc = "render" => (digit = 0 /\ i = 0 /\ run_start = NoRun)
       /\ pc' = "render" => (pc \in {"start", "poll"} /\ digit' = 0 /\ i' = 0)
       /\ pc = "paint" => pc' \in {"paint", "poll", "panicked"}
       /\ Render => UNCHANGED <<image, x, y, setting_mode, going_right>>]_vars

\* C15 witness: a frame is about to be drawn after a digit key's loop of two
\* iterations from the fresh state of a grid of two rows and two columns:
\* the first row is written false, the cursor has descended, the direction
\* and the paint value have flipped.
C15_Witness ==
    /\ pc = "render" /\ ValidGrid
    /\ image.width = 2 /\ image.height = 2
    /\ image.pixels = <<Some(FALSE), Some(FALSE), None, None>>
    /\ x = 1 /\ y = 1 /\ ~going_right /\ setting_mode

\* C16: Home moves the cursor to (0, 0) and changes nothing else; R flips the
\* direction and changes nothing else; X flips the paint value and changes
\* nothing else; S changes nothing of the grid or the navigator state; none
\* of the four changes a cell or fails.  A session starts with the cursor at
\* (0, 0), going right, with the paint value false.
C16_Frames ==
    [][/\ KeyHome =>
            (x' = 0 /\ y' = 0 /\ UNCHANGED <<pc, image, setting_mode, going_right>>)
       /\ KeyR =>
            (going_right' = ~going_right /\ UNCHANGED <<pc, image, x, y, setting_mode>>)
       /\ KeyX =>
            (setting_mode' = ~setting_mode /\ UNCHANGED <<pc, image, x, y, going_right>>)
       /\ KeyS =>
            UNCHANGED <<pc, image, x, y, setting_mode, going_right>>
       /\ (pc = "start" /\ pc' = "render") =>
            (x' = 0 /\ y' = 0 /\ going_right' /\ ~setting_mode')]_vars

\* C16 witness: the grid has just been saved with the cursor back at (0, 0)
\* after the last cell of a grid of two rows and two columns was set, the
\* paint value flipped to true and the direction flipped to leftward.
C16_Witness ==
    /\ pc = "poll" /\ io.op = "write" /\ ValidGrid
    /\ image.width = 2 /\ image.height = 2
    /\ x = 0 /\ y = 0 /\ setting_mode /\ ~going_right
    /\ image.pixels = <<None, None, None, Some(TRUE)>>

\* The index of the n-th cell (from 0) of the serpentine order of a grid w
\* wide: rows from the top, even rows left to right, odd rows right to left.
SerpentineIndex(w, n) ==
    LET row == n \div w
        col == n % w
    IN row * w + (IF row % 2 = 0 THEN col ELSE w - 1 - col)

\* A 3 x 3 grid in its fresh state.
Fresh3x3 ==
    UiState([width |-> 3, height |-> 3, pixels |-> UniformSeq(9, None)],
            0, 0, FALSE, TRUE)

\* C17: in a session on a grid as the data model describes it, as long as
\* nothing but digit keys has been handled since the fresh state and their
\* loops have made width * height iterations at most, the k-th iteration has
\* written the k-th cell of the serpentine order (even rows left to right,
\* odd rows right to left), so no cell was written twice and every cell
\* written is set; after width * height iterations every cell has been
\* written exactly once and none is unset.  On the fresh 3 x 3 grid a loop of
\* nine iterations sets all nine cells.
C17_Coverage ==
    (InSession /\ ValidGrid /\ trail.clean) =>
        /\ Len(trail.cells) <= image.width * image.height
        /\ \A k \in 1..Len(trail.cells) :
             /\ trail.cells[k] = SerpentineIndex(image.width, k - 1)
             /\ image.pixels[trail.cells[k] + 1] # None
             /\ \A j \in 1..Len(trail.cells) : trail.cells[j] = trail.cells[k] => j = k
        /\ Len(trail.cells) = image.width * image.height =>
             /\ \A c \in 0..(image.width * image.height - 1) :
                  \E k \in 1..Len(trail.cells) : trail.cells[k] = c
             /\ \A c \in 1..Len(image.pixels) : image.pixels[c] # None
        /\ \A c \in 1..9 : Loop(Fresh3x3, 9).image.pixels[c] = Some(FALSE)

\* C17 witness: two loops of two iterations each, and nothing else, have run
\* from the fresh state of a grid of two rows and two columns: the first row
\* is false, the second true, the cursor is in the first cell of the last
\* row.
C17_Witness ==
    /\ pc = "poll" /\ ValidGrid /\ trail.clean
    /\ image.width = 2 /\ image.height = 2
    /\ trail.cells = <<0, 1, 3, 2>>
    /\ image.pixels = <<Some(FALSE), Some(FALSE), Some(TRUE), Some(TRUE)>>
    /\ x = 0 /\ y = 1

\* C18: every iteration of a digit key's loop writes true or false, never
\* unset; it writes false when the loop before it wrote true and true when
\* the loop before it wrote false, as long as Keycode::X was not pressed
\* between the two; and it writes false when no loop has ended and
\* Keycode::X has not been pressed since the session started.  (A loop of no
\* iteration counts as a loop of the value it would have written.)
C18_Alternation ==
    [][(PaintStep /\ pc' = "paint") =>
        LET written == image'.pixels[image_index(image, x, y) + 1] IN
        /\ written \in {Some(TRUE), Some(FALSE)}
        /\ last_run = "wrote_true" => written = Some(FALSE)
        /\ last_run = "wrote_false" => written = Some(TRUE)
        /\ last_run = "fresh" => written = Some(FALSE)]_vars

\* C18 witness: on a grid of two rows and two columns a first loop has
\* written false to the first row and the second loop, with nothing but
\* digit keys handled since the session started, has written true to the
\* last cell.
C18_Witness ==
    /\ pc = "paint" /\ i = 1 /\ ValidGrid /\ trail.clean
    /\ image.width = 2 /\ image.height = 2
    /\ last_run = "wrote_false"
    /\ trail.cells = <<0, 1, 3>>
    /\ image.pixels = <<Some(FALSE), Some(FALSE), None, Some(TRUE)>>

\* The full image fits the window, and so does the current colour's square.
ThumbnailFits ==
    /\ FULL_IMAGE_BORDER_OFFSET + FULL_IMAGE_PIXEL_SCALE * image.width <= CanvasWidth
    /\ FULL_IMAGE_BORDER_OFFSET + FULL_IMAGE_PIXEL_SCALE * image.height <= CanvasHeight
    /\ CanvasWidth >= CURRENT_COLOR_BORDER_OFFSET + CURRENT_COLOR_PIXEL_SCALE

\* C19: in every state a session reaches on a grid whose full image fits the
\* window, render does not fail: no coordinate of the full image, its frame
\* or the current colour's square underflows, every cell it reads (in the
\* detail preview and in the full image) is inside the cell sequence, and the
\* preview frame's position, computed in signed arithmetic, may be negative.
C19_RenderSafe ==
    (pc = "render" /\ ThumbnailFits) => ~RenderPanics(image, x, y, overflow_checks)

\* What holds instead: render does not fail on a grid that fits the window
\* and is as the data model describes it, and there the preview frame's
\* position is negative when the grid is small.
C19_RenderSafeOnValidGrids ==
    (pc = "render" /\ ThumbnailFits /\ ValidGrid) =>
        /\ ~RenderPanics(image, x, y, overflow_checks)
        /\ IndicatorCoord(CanvasWidth, image.width, x) \in -I32Max..I32Max
        /\ IndicatorCoord(CanvasHeight, image.height, y) \in -I32Max..I32Max

====
